---- MODULE Spec2Model ----
(***************************************************************************)
(* A model of the video ingest pipeline: scripts/ingest_video.py (URL      *)
(* classification, audio acquisition, transcription, status tracking,     *)
(* extraction, batch selection and the per-item orchestration of main).   *)
(*                                                                         *)
(* Strings the program inspects character by character (URLs) are         *)
(* sequences of one-character strings.  Texts whose only relevant         *)
(* property is their identity and length (messages) are sequences of      *)
(* parts [s, n]: the first n characters of the text named s.              *)
(***************************************************************************)
EXTENDS Integers, Sequences, FiniteSets, TLC

\* Python's None, for values that are otherwise strings, character strings,
\* texts, match results and parsed JSON.
None == "None"
NoUrl == <<"None">>
NoText == << [s |-> "None", n |-> 0] >>
NoMatch == [matched |-> FALSE]
NoJson == [parsed |-> FALSE]

\* The exit code of a process that has not exited.
Running == -1

\* ------------------------------------------------------------------------
\* Bounds of the model
\* ------------------------------------------------------------------------

\* Largest number of rows held by each remote table.
MaxRows == 2

\* ------------------------------------------------------------------------
\* Characters
\* ------------------------------------------------------------------------

LOWER ==
    <<"a","b","c","d","e","f","g","h","i","j","k","l","m",
      "n","o","p","q","r","s","t","u","v","w","x","y","z">>

UPPER ==
    <<"A","B","C","D","E","F","G","H","I","J","K","L","M",
      "N","O","P","Q","R","S","T","U","V","W","X","Y","Z">>

DIGITS == {"0","1","2","3","4","5","6","7","8","9"}

WHITESPACE == {" ", "\n", "\t"}

\* Case folding of re.I on ASCII input.
ToLower(c) ==
    IF \E k \in 1..26 : UPPER[k] = c
    THEN LOWER[CHOOSE k \in 1..26 : UPPER[k] = c]
    ELSE c

\* [A-Za-z0-9_-]
IsIdChar(c) ==
    \/ \E k \in 1..26 : LOWER[k] = ToLower(c)
    \/ c \in DIGITS
    \/ c \in {"_", "-"}

\* \d
IsDigit(c) == c \in DIGITS

\* [^/]
NotSlash(c) == c # "/"

\* ------------------------------------------------------------------------
\* The literals of the three patterns, and the URLs the model feeds in
\* ------------------------------------------------------------------------

L_instagram ==
    <<"i","n","s","t","a","g","r","a","m",".","c","o","m","/">>

L_twitter ==
    <<"t","w","i","t","t","e","r",".","c","o","m","/">>

L_x ==
    <<"x",".","c","o","m","/">>

L_reel ==
    <<"r","e","e","l","/">>

L_status ==
    <<"s","t","a","t","u","s","/">>

L_watch ==
    <<"y","o","u","t","u","b","e",".","c","o","m","/","w","a","t","c","h","?","v","=">>

L_youtu_be ==
    <<"y","o","u","t","u",".","b","e","/">>

U_ig ==
    <<"h","t","t","p","s",":","/","/","i","n","s","t","a","g","r","a","m",".","c","o","m","/","u","s","r","/","r","e","e","l","/","A","b","_","1","-">>

U_ig2 ==
    <<"h","t","t","p","s",":","/","/","I","n","s","t","a","g","r","a","m",".","c","o","m","/","r","e","e","l","/","C","x","9","/">>

U_x ==
    <<"h","t","t","p","s",":","/","/","x",".","c","o","m","/","s","t","a","t","u","s","/","9","8","7">>

U_yt ==
    <<"h","t","t","p","s",":","/","/","y","o","u","t","u",".","b","e","/","d","Q","w","4","w","9","W","g","X","c","Q">>

U_tw ==
    <<"h","t","t","p","s",":","/","/","t","w","i","t","t","e","r",".","c","o","m","/","m","e","/","s","t","a","t","u","s","/","1","2">>

\* A URL that two patterns match, the later pattern further left.
U_both ==
    <<"h","t","t","p","s",":","/","/","x",".","c","o","m","/","s","t","a","t","u","s","/","1","?","u","=","i","n","s","t","a","g","r","a","m",".","c","o","m","/","r","e","e","l","/","a","b">>

U_both2 ==
    <<"y","o","u","t","u",".","b","e","/","d","Q","w","4","w","9","W","g","X","c","Q","?","x",".","c","o","m","/","s","t","a","t","u","s","/","5">>

U_bad ==
    <<"h","t","t","p","s",":","/","/","e","x","a","m","p","l","e",".","c","o","m","/","v">>

U_pad ==
    <<" ","y","o","u","t","u",".","b","e","/","d","Q","w","4","w","9","W","g","X","c","Q","\n">>

\* ------------------------------------------------------------------------
\* URL Classifier
\* ------------------------------------------------------------------------

\* str.strip(): the string without its leading and trailing whitespace.
Strip(s) ==
    LET keep == {k \in 1..Len(s) : s[k] \notin WHITESPACE}
    IN  IF keep = {} THEN <<>>
        ELSE SubSeq(s, CHOOSE k \in keep : \A j \in keep : k <= j,
                       CHOOSE k \in keep : \A j \in keep : k >= j)

\* The literal lit (lower case) matches s at position p, ignoring case.
MatchLit(s, p, lit) ==
    /\ p >= 1
    /\ p + Len(lit) - 1 <= Len(s)
    /\ \A j \in 1..Len(lit) : ToLower(s[p + j - 1]) = lit[j]

\* Membership of a character in a character class of the patterns.
InClass(c, class) ==
    CASE class = "[A-Za-z0-9_-]" -> IsIdChar(c)
      [] class = "\\d"            -> IsDigit(c)
      [] class = "[^/]"           -> NotSlash(c)

\* End (exclusive) of the longest run of characters satisfying Pred that
\* starts at p: what a greedy character-class repetition consumes.
RunEnd(s, p, class) ==
    CHOOSE q \in p..(Len(s) + 1) :
        /\ \A j \in p..(q - 1) : InClass(s[j], class)
        /\ q = Len(s) + 1 \/ ~InClass(s[q], class)

\* instagram\.com/(?:([^/]+)/)?reel/([A-Za-z0-9_-]+) anchored at p.
\* The optional handle group is tried first; the match falls back to the
\* form without a handle.
INSTAGRAM_REEL(s, p) ==
    LET q  == p + Len(L_instagram)
        h  == RunEnd(s, q, "[^/]")
        a  == h + 1 + Len(L_reel)
        b  == q + Len(L_reel)
        withHandle ==
            /\ h > q
            /\ h <= Len(s)
            /\ MatchLit(s, h + 1, L_reel)
            /\ RunEnd(s, a, "[A-Za-z0-9_-]") > a
        noHandle ==
            /\ MatchLit(s, q, L_reel)
            /\ RunEnd(s, b, "[A-Za-z0-9_-]") > b
    IN  IF ~MatchLit(s, p, L_instagram) THEN [ok |-> FALSE]
        ELSE IF withHandle
        THEN [ok |-> TRUE, g1 |-> SubSeq(s, q, h - 1),
              g2 |-> SubSeq(s, a, RunEnd(s, a, "[A-Za-z0-9_-]") - 1)]
        ELSE IF noHandle
        THEN [ok |-> TRUE, g1 |-> NoUrl,
              g2 |-> SubSeq(s, b, RunEnd(s, b, "[A-Za-z0-9_-]") - 1)]
        ELSE [ok |-> FALSE]

\* (?:[^/]+/)?status/(\d+) anchored at q, the position after the host.
StatusTail(s, q) ==
    LET h  == RunEnd(s, q, "[^/]")
        a  == h + 1 + Len(L_status)
        b  == q + Len(L_status)
        withSegment ==
            /\ h > q
            /\ h <= Len(s)
            /\ MatchLit(s, h + 1, L_status)
            /\ RunEnd(s, a, "\\d") > a
        noSegment ==
            /\ MatchLit(s, q, L_status)
            /\ RunEnd(s, b, "\\d") > b
    IN  IF withSegment
        THEN [ok |-> TRUE, g1 |-> SubSeq(s, a, RunEnd(s, a, "\\d") - 1)]
        ELSE IF noSegment
        THEN [ok |-> TRUE, g1 |-> SubSeq(s, b, RunEnd(s, b, "\\d") - 1)]
        ELSE [ok |-> FALSE]

\* (?:twitter|x)\.com/(?:[^/]+/)?status/(\d+) anchored at p.
TWITTER_STATUS(s, p) ==
    IF MatchLit(s, p, L_twitter) THEN StatusTail(s, p + Len(L_twitter))
    ELSE IF MatchLit(s, p, L_x) THEN StatusTail(s, p + Len(L_x))
    ELSE [ok |-> FALSE]

\* ([A-Za-z0-9_-]{11}) anchored at q.
Id11(s, q) ==
    IF q + 10 <= Len(s) /\ \A j \in q..(q + 10) : IsIdChar(s[j])
    THEN [ok |-> TRUE, g1 |-> SubSeq(s, q, q + 10)]
    ELSE [ok |-> FALSE]

\* (?:youtube\.com/watch\?v=|youtu\.be/)([A-Za-z0-9_-]{11}) anchored at p.
YOUTUBE(s, p) ==
    LET viaWatch == IF MatchLit(s, p, L_watch)
                    THEN Id11(s, p + Len(L_watch)) ELSE [ok |-> FALSE]
        viaShort == IF MatchLit(s, p, L_youtu_be)
                    THEN Id11(s, p + Len(L_youtu_be)) ELSE [ok |-> FALSE]
    IN  IF viaWatch.ok THEN viaWatch ELSE viaShort

\* INSTAGRAM_REEL.search(s): the match at the leftmost position where
\* one exists.
SearchInstagram(s) ==
    IF \E p \in 1..Len(s) : INSTAGRAM_REEL(s, p).ok
    THEN INSTAGRAM_REEL(s, CHOOSE p \in 1..Len(s) :
                              /\ INSTAGRAM_REEL(s, p).ok
                              /\ \A r \in 1..(p - 1) : ~INSTAGRAM_REEL(s, r).ok)
    ELSE [ok |-> FALSE]

\* TWITTER_STATUS.search(s)
SearchTwitter(s) ==
    IF \E p \in 1..Len(s) : TWITTER_STATUS(s, p).ok
    THEN TWITTER_STATUS(s, CHOOSE p \in 1..Len(s) :
                              /\ TWITTER_STATUS(s, p).ok
                              /\ \A r \in 1..(p - 1) : ~TWITTER_STATUS(s, r).ok)
    ELSE [ok |-> FALSE]

\* YOUTUBE.search(s)
SearchYoutube(s) ==
    IF \E p \in 1..Len(s) : YOUTUBE(s, p).ok
    THEN YOUTUBE(s, CHOOSE p \in 1..Len(s) :
                       /\ YOUTUBE(s, p).ok
                       /\ \A r \in 1..(p - 1) : ~YOUTUBE(s, r).ok)
    ELSE [ok |-> FALSE]

\* A classifier that tries the twitter pattern first.
parse_url_twitter_first(url) ==
    LET s  == Strip(url)
        ig == SearchInstagram(s)
        tw == SearchTwitter(s)
        yt == SearchYoutube(s)
    IN  IF tw.ok
        THEN [platform |-> "twitter", video_id |-> tw.g1, handle |-> NoUrl]
        ELSE IF ig.ok
        THEN [platform |-> "instagram", video_id |-> ig.g2, handle |-> ig.g1]
        ELSE IF yt.ok
        THEN [platform |-> "youtube", video_id |-> yt.g1, handle |-> NoUrl]
        ELSE NoMatch

\* parse_url: {platform, video_id, handle} or None.  handle is None for a
\* reel URL without a handle segment and for the other two platforms.
parse_url(url) ==
    LET s  == Strip(url)
        ig == SearchInstagram(s)
        tw == SearchTwitter(s)
        yt == SearchYoutube(s)
    IN  IF ig.ok
        THEN [platform |-> "instagram", video_id |-> ig.g2, handle |-> ig.g1]
        ELSE IF tw.ok
        THEN [platform |-> "twitter", video_id |-> tw.g1, handle |-> NoUrl]
        ELSE IF yt.ok
        THEN [platform |-> "youtube", video_id |-> yt.g1, handle |-> NoUrl]
        ELSE NoMatch

\* ------------------------------------------------------------------------
\* Texts: a text is a sequence of parts, the part [s, n] being the first n
\* characters of the text named s.
\* ------------------------------------------------------------------------

\* Lengths of the texts the model names.
TextLengths ==
    [name \in {"Download failed", "Empty transcript", "Extract ", ": ",
               "422", "500", "502", "503", "bad transcript",
               "long error", "gateway page", "Read timed out", "hello world",
               "Expecting value", "HTTP ", "see error",
               "traceback", "ImportError"} |->
        CASE name = "Download failed"  -> 15
          [] name = "Empty transcript" -> 16
          [] name = "Extract "         -> 8
          [] name = ": "               -> 2
          [] name = "422"              -> 3
          [] name = "500"              -> 3
          [] name = "503"              -> 3
          [] name = "see error"        -> 9
          [] name = "traceback"        -> 1800
          [] name = "ImportError"      -> 180
          [] name = "502"              -> 3
          [] name = "bad transcript"   -> 14
          [] name = "long error"       -> 600
          [] name = "gateway page"     -> 300
          [] name = "Read timed out"   -> 14
          [] name = "hello world"      -> 11
          [] name = "Expecting value"  -> 15
          [] name = "HTTP "            -> 5]

\* The whole text named name.
Text(name) == << [s |-> name, n |-> TextLengths[name]] >>

\* len(t)
RECURSIVE TextLen(_)
TextLen(t) ==
    IF t = <<>> THEN 0 ELSE Head(t).n + TextLen(Tail(t))

\* t[:k]
RECURSIVE Take(_, _)
Take(t, k) ==
    IF t = <<>> \/ k <= 0 THEN <<>>
    ELSE IF Head(t).n <= k
    THEN <<Head(t)>> \o Take(Tail(t), k - Head(t).n)
    ELSE << [s |-> Head(t).s, n |-> k] >>

\* ------------------------------------------------------------------------
\* Environment, command line and remote tables the model feeds in
\* ------------------------------------------------------------------------

\* Python truthiness of an optional string.
Truthy(v) == v # None /\ v # ""

\* a or b
Or(a, b) == IF Truthy(a) THEN a ELSE b

\* The same for an optional character string.
TruthyUrl(u) == u # NoUrl /\ u # <<>>

OrUrl(a, b) == IF TruthyUrl(a) THEN a ELSE b

\* A process environment: the variables main and transcribe read, and
\* whether the faster_whisper package can be imported.  This one is the
\* deployment the handler's docstring describes.
BaseEnv ==
    [SUPABASE_URL |-> "https://sb", VITE_SUPABASE_URL |-> None,
     SUPABASE_SERVICE_ROLE_KEY |-> "service-key",
     SUPABASE_ANON_KEY |-> "anon-key", VITE_SUPABASE_ANON_KEY |-> None,
     GROQ_API_KEY |-> "groq-key", faster_whisper |-> TRUE]

\* The process environments.
Envs ==
    { BaseEnv,
      [SUPABASE_URL |-> "https://sb", VITE_SUPABASE_URL |-> None,
       SUPABASE_SERVICE_ROLE_KEY |-> None,
       SUPABASE_ANON_KEY |-> "anon-key", VITE_SUPABASE_ANON_KEY |-> None,
       GROQ_API_KEY |-> None, faster_whisper |-> TRUE],
      [SUPABASE_URL |-> None, VITE_SUPABASE_URL |-> "https://sb",
       SUPABASE_SERVICE_ROLE_KEY |-> None,
       SUPABASE_ANON_KEY |-> None, VITE_SUPABASE_ANON_KEY |-> "vite-key",
       GROQ_API_KEY |-> None, faster_whisper |-> FALSE],
      [SUPABASE_URL |-> "https://sb", VITE_SUPABASE_URL |-> None,
       SUPABASE_SERVICE_ROLE_KEY |-> "",
       SUPABASE_ANON_KEY |-> "anon-key", VITE_SUPABASE_ANON_KEY |-> None,
       GROQ_API_KEY |-> "", faster_whisper |-> FALSE],
      [SUPABASE_URL |-> None, VITE_SUPABASE_URL |-> None,
       SUPABASE_SERVICE_ROLE_KEY |-> "service-key",
       SUPABASE_ANON_KEY |-> "anon-key", VITE_SUPABASE_ANON_KEY |-> None,
       GROQ_API_KEY |-> "groq-key", faster_whisper |-> TRUE],
      [SUPABASE_URL |-> "https://sb", VITE_SUPABASE_URL |-> None,
       SUPABASE_SERVICE_ROLE_KEY |-> None,
       SUPABASE_ANON_KEY |-> None, VITE_SUPABASE_ANON_KEY |-> None,
       GROQ_API_KEY |-> None, faster_whisper |-> TRUE],
      [SUPABASE_URL |-> "", VITE_SUPABASE_URL |-> "https://sb",
       SUPABASE_SERVICE_ROLE_KEY |-> "service-key",
       SUPABASE_ANON_KEY |-> None, VITE_SUPABASE_ANON_KEY |-> None,
       GROQ_API_KEY |-> None, faster_whisper |-> TRUE] }

\* The command lines: argparse's namespace.
ArgSets ==
    { [url |-> u, from_queue |-> FALSE, from_strategy_videos |-> FALSE,
       dry_run |-> d] : u \in {U_ig, U_pad, U_bad, U_both, U_both2},
                        d \in BOOLEAN }
    \cup
    { [url |-> NoUrl, from_queue |-> q, from_strategy_videos |-> v,
       dry_run |-> d] : q \in BOOLEAN, v \in BOOLEAN, d \in {TRUE} }
    \cup
    { [url |-> NoUrl, from_queue |-> q, from_strategy_videos |-> ~q,
       dry_run |-> FALSE] : q \in BOOLEAN }
    \cup
    { [url |-> U_x, from_queue |-> TRUE, from_strategy_videos |-> FALSE,
       dry_run |-> FALSE] }

\* A row of the remote table strategy_videos.
VideoRow(vid, plat, reel, canon, heading, st) ==
    [video_id |-> vid, platform |-> plat, reel_url |-> reel,
     canonical_url |-> canon, video_heading |-> heading, status |-> st,
     ingest_status |-> None, ingest_error |-> NoText]

SampleVideos ==
    << VideoRow(parse_url(U_ig).video_id, "instagram", U_ig, U_ig2, None, "tracked"),
       VideoRow(<<"v">>, "youtube", NoUrl, U_bad, None, "tracked"),
       VideoRow(parse_url(U_x).video_id, "twitter", NoUrl, U_x, None, "tracked"),
       VideoRow(parse_url(U_yt).video_id, "youtube", <<>>, U_yt, None, "tracked"),
       VideoRow(parse_url(U_tw).video_id, "twitter", NoUrl, U_tw, "A heading", "tracked"),
       VideoRow(parse_url(U_ig2).video_id, "instagram", U_ig2, NoUrl, None, "archived") >>

\* A row of the remote table strategy_video_queue.
SampleQueue ==
    << [status |-> "done", url |-> U_ig],
       [status |-> "done", url |-> U_yt],
       [status |-> "pending", url |-> U_x],
       [status |-> "done", url |-> NoUrl] >>

\* The subsequences of rows with at most MaxRows rows.
RECURSIVE Pick(_, _)
Pick(rows, keep) ==
    IF rows = <<>> THEN <<>>
    ELSE IF (Len(rows) \in keep)
    THEN Pick(SubSeq(rows, 1, Len(rows) - 1), keep) \o <<rows[Len(rows)]>>
    ELSE Pick(SubSeq(rows, 1, Len(rows) - 1), keep)

Tables(rows) ==
    { Pick(rows, keep) :
        keep \in {k \in SUBSET (1..Len(rows)) : Cardinality(k) <= MaxRows} }

\* The table a run with command line a reads its batch from, if any.
Reads(a, table) ==
    /\ ~TruthyUrl(a.url)
    /\ IF a.from_strategy_videos THEN table = "strategy_videos"
       ELSE a.from_queue /\ table = "strategy_video_queue"

\* The contents of the remote store at the start of a run.
Stores ==
    { [videos |-> v, queue |-> SubSeq(SampleQueue, 1, 1)] :
        v \in Tables(SampleVideos) }
    \cup
    { [videos |-> SubSeq(SampleVideos, 1, 1), queue |-> q] :
        q \in Tables(SampleQueue) }

\* ------------------------------------------------------------------------
\* Audio Acquirer
\* ------------------------------------------------------------------------

\* What running the downloader can do: time out, fail to start, or exit
\* with a return code having left some files audio.<ext> in the scratch
\* directory.
DownloadOutcomes ==
    { [kind |-> "timeout", files |-> {}],
      [kind |-> "no_executable", files |-> {}],
      [kind |-> "exit", returncode |-> 1, files |-> {}],
      [kind |-> "exit", returncode |-> 1, files |-> {"m4a"}],
      [kind |-> "exit", returncode |-> 0, files |-> {}],
      [kind |-> "exit", returncode |-> 0, files |-> {"wav"}],
      [kind |-> "exit", returncode |-> 0, files |-> {"m4a"}],
      [kind |-> "exit", returncode |-> 0, files |-> {"webm", "mp3"}] }

\* The extensions download_audio probes for, in order.
ProbeOrder == <<"m4a", "webm", "mp3", "opus">>

\* download_audio without the test of the return code.
download_audio_ignoring_returncode(o) ==
    IF o.kind # "exit" THEN None
    ELSE IF \E k \in 1..Len(ProbeOrder) : ProbeOrder[k] \in o.files
    THEN ProbeOrder[CHOOSE k \in 1..Len(ProbeOrder) :
                        /\ ProbeOrder[k] \in o.files
                        /\ \A j \in 1..(k - 1) : ProbeOrder[j] \notin o.files]
    ELSE None

\* download_audio: the extension of the file returned, or None.
download_audio(o) ==
    IF o.kind # "exit" THEN None
    ELSE IF o.returncode # 0 THEN None
    ELSE IF \E k \in 1..Len(ProbeOrder) : ProbeOrder[k] \in o.files
    THEN ProbeOrder[CHOOSE k \in 1..Len(ProbeOrder) :
                        /\ ProbeOrder[k] \in o.files
                        /\ \A j \in 1..(k - 1) : ProbeOrder[j] \notin o.files]
    ELSE None

\* ------------------------------------------------------------------------
\* Transcriber
\* ------------------------------------------------------------------------

\* The strategy transcribe takes: the hosted API when GROQ_API_KEY is set,
\* else the local model when it can be imported, else none.
Strategy(e) ==
    IF Truthy(e.GROQ_API_KEY) THEN "groq"
    ELSE IF e.faster_whisper THEN "local"
    ELSE "none"

\* os.path.splitext(audio_path)[1].lower(): the extension with its dot.
splitext(ext) == <<".", ext>>

\* The content type _transcribe_groq uploads with: a lookup of the
\* extension in a table keyed by extensions without a dot.
mime(audio_ext) ==
    LET key == splitext(audio_ext)
    IN  CASE key = <<"m4a">>  -> "audio/mp4"
          [] key = <<"mp3">>  -> "audio/mpeg"
          [] key = <<"wav">>  -> "audio/wav"
          [] key = <<"webm">> -> "audio/webm"
          [] OTHER            -> "audio/mp4"

\* What either strategy can do with an audio file: raise, or return a
\* (possibly empty) text.
TranscribeOutcomes ==
    { [kind |-> "raise", text |-> <<>>],
      [kind |-> "return", text |-> <<>>],
      [kind |-> "return", text |-> Text("hello world")] }

\* ------------------------------------------------------------------------
\* Status Tracker
\* ------------------------------------------------------------------------

\* A status write that sends the message whole.
set_ingest_status_untruncated(url, key, video_id, platform, status, error) ==
    [method |-> "PATCH",
     url    |-> <<url, "/rest/v1/strategy_videos">>,
     params |-> [video_id |-> video_id, platform |-> platform],
     body   |-> IF error # NoText
                THEN [ingest_status |-> status, ingest_error |-> error]
                ELSE [ingest_status |-> status],
     key    |-> key]

\* The request set_ingest_status sends.
set_ingest_status(url, key, video_id, platform, status, error) ==
    [method |-> "PATCH",
     url    |-> <<url, "/rest/v1/strategy_videos">>,
     params |-> [video_id |-> video_id, platform |-> platform],
     body   |-> IF error # NoText
                THEN [ingest_status |-> status,
                      ingest_error  |-> IF TextLen(error) > 500
                                        THEN Take(error, 500) ELSE error]
                ELSE [ingest_status |-> status],
     key    |-> key]

\* The remote store applying a status update to the rows it matches.
ApplyPatch(table, req) ==
    [k \in DOMAIN table |->
        IF /\ table[k].video_id = req.params.video_id
           /\ table[k].platform = req.params.platform
        THEN [table[k] EXCEPT
                !.ingest_status = req.body.ingest_status,
                !.ingest_error  = IF "ingest_error" \in DOMAIN req.body
                                  THEN req.body.ingest_error ELSE @]
        ELSE table[k]]

\* ------------------------------------------------------------------------
\* Extraction Client
\* ------------------------------------------------------------------------

\* What the extraction endpoint can answer: no answer (transport error),
\* or a status with a body that is a JSON mapping (json) or not (json is
\* NoJson), text being the raw body.
Responses ==
    { [kind |-> "transport", status |-> 0, json |-> NoJson,
       text |-> Text("Read timed out")],
      [kind |-> "http", status |-> 200,
       json |-> [extracted |-> Text("hello world")], text |-> <<>>],
      [kind |-> "http", status |-> 422,
       json |-> [error |-> Text("bad transcript"),
                 message |-> Text("see error")], text |-> <<>>],
      [kind |-> "http", status |-> 500,
       json |-> [message |-> Text("long error")], text |-> <<>>],
      [kind |-> "http", status |-> 502, json |-> NoJson,
       text |-> Text("gateway page")],
      [kind |-> "http", status |-> 503, json |-> NoJson, text |-> <<>>] }

\* The status code as f"{resp.status_code}" prints it.
StatusText(status) ==
    CASE status = 422 -> Text("422")
      [] status = 500 -> Text("500")
      [] status = 502 -> Text("502")
      [] status = 503 -> Text("503")

\* The request call_extract sends.
ExtractRequest(url, key, video_id, platform, text, reel_url, canonical_url) ==
    [method |-> "POST",
     url    |-> <<url, "/functions/v1/extract-strategy-metadata-from-transcript">>,
     body   |-> [video_id |-> video_id, platform |-> platform,
                 transcript |-> text, reel_url |-> reel_url,
                 canonical_url |-> canonical_url],
     key    |-> key]

\* A client that reads the message field before the error field.
call_extract_message_first(resp) ==
    IF resp.kind = "transport"
    THEN [raised |-> TRUE, value |-> resp.text]
    ELSE IF resp.status >= 400
    THEN LET err_msg ==
                 IF resp.json # NoJson
                 THEN IF "message" \in DOMAIN resp.json THEN resp.json.message
                      ELSE IF "error" \in DOMAIN resp.json
                      THEN resp.json.error
                      ELSE Take(resp.text, 200)
                 ELSE IF resp.text # <<>> THEN Take(resp.text, 200)
                 ELSE Text("HTTP ") \o StatusText(resp.status)
         IN  [raised |-> TRUE,
              value  |-> Text("Extract ") \o StatusText(resp.status)
                         \o Text(": ") \o err_msg]
    ELSE IF resp.json = NoJson
    THEN [raised |-> TRUE, value |-> Text("Expecting value")]
    ELSE [raised |-> FALSE, value |-> resp.json]

\* call_extract on the response resp: the error raised (its text) or the
\* parsed body returned.
call_extract(resp) ==
    IF resp.kind = "transport"
    THEN [raised |-> TRUE, value |-> resp.text]
    ELSE IF resp.status >= 400
    THEN LET err_msg ==
                 IF resp.json # NoJson
                 THEN IF "error" \in DOMAIN resp.json THEN resp.json.error
                      ELSE IF "message" \in DOMAIN resp.json
                      THEN resp.json.message
                      ELSE Take(resp.text, 200)
                 ELSE IF resp.text # <<>> THEN Take(resp.text, 200)
                 ELSE Text("HTTP ") \o StatusText(resp.status)
         IN  [raised |-> TRUE,
              value  |-> Text("Extract ") \o StatusText(resp.status)
                         \o Text(": ") \o err_msg]
    ELSE IF resp.json = NoJson
    THEN [raised |-> TRUE, value |-> Text("Expecting value")]
    ELSE [raised |-> FALSE, value |-> resp.json]

\* ------------------------------------------------------------------------
\* Batch Selector
\* ------------------------------------------------------------------------

\* os.environ.get("SUPABASE_URL", os.environ.get("VITE_SUPABASE_URL"))
ResolveUrl(e) ==
    IF e.SUPABASE_URL # None THEN e.SUPABASE_URL ELSE e.VITE_SUPABASE_URL

\* The credential with the restricted key taken first.
ResolveKey_anon_first(e) ==
    Or(Or(e.SUPABASE_ANON_KEY, e.SUPABASE_SERVICE_ROLE_KEY),
       e.VITE_SUPABASE_ANON_KEY)

\* SUPABASE_SERVICE_ROLE_KEY or SUPABASE_ANON_KEY or VITE_SUPABASE_ANON_KEY
ResolveKey(e) ==
    Or(Or(e.SUPABASE_SERVICE_ROLE_KEY, e.SUPABASE_ANON_KEY),
       e.VITE_SUPABASE_ANON_KEY)

\* The read of strategy_videos main issues in backlog mode.
BacklogRequest(url, key) ==
    [method |-> "GET",
     url    |-> <<url, "/rest/v1/strategy_videos">>,
     params |-> [video_heading |-> "is.null", status |-> "eq.tracked",
                 select |-> "video_id,platform,reel_url,canonical_url"],
     key    |-> key]

\* The read of strategy_video_queue main issues in queue mode.
QueueRequest(url, key) ==
    [method |-> "GET",
     url    |-> <<url, "/rest/v1/strategy_video_queue">>,
     params |-> [status |-> "eq.done", select |-> "url"],
     key    |-> key]

\* A backlog read that leaves out the rows some run has marked.
BacklogRows_unmarked(table) ==
    SelectSeq(table, LAMBDA r : /\ r.video_heading = None
                                /\ r.status = "tracked"
                                /\ r.ingest_status = None)

\* The rows the store answers a read with: those passing the filters of
\* the request, in table order.
BacklogRows(table) ==
    SelectSeq(table, LAMBDA r : r.video_heading = None /\ r.status = "tracked")

QueueRows(table) ==
    SelectSeq(table, LAMBDA r : r.status = "done")

\* A backlog row read with canonical_url taken first.
RowUrl_canonical_first(r, backlog) ==
    IF backlog THEN OrUrl(OrUrl(r.canonical_url, r.reel_url), <<>>)
    ELSE r.url

\* The URL main takes from a fetched row.
RowUrl(r, backlog) ==
    IF backlog THEN OrUrl(OrUrl(r.reel_url, r.canonical_url), <<>>)
    ELSE r.url

\* {"url": url, **parsed}
Item(url, parsed) ==
    [url |-> url, platform |-> parsed.platform,
     video_id |-> parsed.video_id, handle |-> parsed.handle]

\* A loop that puts each new item in front of the batch.
RECURSIVE BuildBatch_reversed(_, _)
BuildBatch_reversed(rows, backlog) ==
    IF rows = <<>> THEN <<>>
    ELSE LET url == RowUrl(Head(rows), backlog)
             rest == BuildBatch_reversed(Tail(rows), backlog)
         IN  IF TruthyUrl(url) /\ parse_url(url) # NoMatch
             THEN rest \o <<Item(url, parse_url(url))>>
             ELSE rest

\* urls_to_process as the loop over the fetched rows builds it.
RECURSIVE BuildBatch(_, _)
BuildBatch(rows, backlog) ==
    IF rows = <<>> THEN <<>>
    ELSE LET url == RowUrl(Head(rows), backlog)
             rest == BuildBatch(Tail(rows), backlog)
         IN  IF TruthyUrl(url) /\ parse_url(url) # NoMatch
             THEN <<Item(url, parse_url(url))>> \o rest
             ELSE rest

\* ------------------------------------------------------------------------
\* The run of main
\* ------------------------------------------------------------------------

VARIABLES
    env,              \* the process environment
    args,             \* the parsed command line
    videos,           \* remote table strategy_videos
    queue,            \* remote table strategy_video_queue
    pc,               \* where main is
    supabase_url,     \* main's locals
    supabase_key,
    urls_to_process,
    i,                \* index of the item the loop is at
    downloaded,       \* extension of the downloaded audio file, or None
    transcript,
    fs,               \* scratch storage: the paths that exist
    exit_code,        \* Running until the process exits
    exit_cause,
    log,              \* every interaction with the outside, in order
    last,             \* detail of the latest interaction
    handler,          \* the trigger handler serving one POST
    runs              \* the backlog runs working on the store at once

vars == <<env, args, videos, queue, pc, supabase_url, supabase_key,
          urls_to_process, i, downloaded, transcript, fs, exit_code,
          exit_cause, log, last, handler, runs>>

\* An entry of the log: operation op for item number item (0: none).
Event(op, item, req, res) == [op |-> op, item |-> item, req |-> req, res |-> res]

NoRequest == [method |-> "none"]

NoDetail == [op |-> "none"]

\* The run was started from a command line: no trigger handler.
NoHandler == [pc |-> "none"]

\* A run on its own.
NoRuns == [pc |-> "none"]

Init ==
    /\ env \in Envs
    /\ args \in ArgSets
    /\ \E st \in Stores :
          /\ videos = st.videos
          /\ queue = st.queue
          /\ Reads(args, "strategy_videos")
                \/ st.videos = SubSeq(SampleVideos, 1, 1)
          /\ Len(st.videos) < MaxRows \/ env = BaseEnv
          /\ Reads(args, "strategy_video_queue")
                \/ st.queue = SubSeq(SampleQueue, 1, 1)
    /\ pc = "start"
    /\ supabase_url = None
    /\ supabase_key = None
    /\ urls_to_process = <<>>
    /\ i = 1
    /\ downloaded = None
    /\ transcript = NoText
    /\ fs = {}
    /\ exit_code = Running
    /\ exit_cause = None
    /\ log = <<>>
    /\ last = NoDetail
    /\ handler = NoHandler
    /\ runs = NoRuns

\* The process ends with the given exit code.
Exit(code, cause) ==
    /\ pc' = "exit"
    /\ exit_code' = code
    /\ exit_cause' = cause

\* tempfile.TemporaryDirectory(): the scratch directory of item k.
ScratchDir(k) == <<k>>

AudioFile(k, ext) == <<k, "audio", ext>>

\* A scratch directory that is never removed.
Cleanup_never(paths, k) == paths

\* Leaving the with block: the directory and everything in it is removed.
Cleanup(paths, k) == {p \in paths : p[1] # k}

\* main reads its configuration; missing configuration is fatal.
Configure ==
    /\ pc = "start"
    /\ UNCHANGED <<handler, runs>>
    /\ supabase_url' = ResolveUrl(env)
    /\ supabase_key' = ResolveKey(env)
    /\ IF ~Truthy(ResolveUrl(env)) \/ ~Truthy(ResolveKey(env))
       THEN Exit(1, "config")
       ELSE /\ pc' = "select"
            /\ UNCHANGED <<exit_code, exit_cause>>
    /\ last' = NoDetail
    /\ UNCHANGED <<env, args, videos, queue, urls_to_process, i, downloaded,
                   transcript, fs, log>>

\* Single-URL mode: an unclassifiable URL is fatal.
SelectSingle ==
    /\ pc = "select"
    /\ UNCHANGED <<handler, runs>>
    /\ TruthyUrl(args.url)
    /\ LET parsed == parse_url(args.url)
       IN  /\ log' = Append(log, Event("parse_url", 0, NoRequest,
                                       IF parsed = NoMatch THEN "miss" ELSE "hit"))
           /\ IF parsed = NoMatch
              THEN /\ Exit(1, "invalid_url")
                   /\ UNCHANGED urls_to_process
              ELSE /\ urls_to_process' = <<Item(Strip(args.url), parsed)>>
                   /\ pc' = "loop"
                   /\ UNCHANGED <<exit_code, exit_cause>>
    /\ last' = NoDetail
    /\ UNCHANGED <<env, args, videos, queue, supabase_url, supabase_key, i,
                   downloaded, transcript, fs>>

\* The parse_url calls the loop over the fetched rows makes.
RECURSIVE ClassifyEvents(_, _)
ClassifyEvents(rows, backlog) ==
    IF rows = <<>> THEN <<>>
    ELSE LET url == RowUrl(Head(rows), backlog)
             rest == ClassifyEvents(Tail(rows), backlog)
         IN  IF TruthyUrl(url)
             THEN <<Event("parse_url", 0, NoRequest,
                          IF parse_url(url) = NoMatch THEN "miss" ELSE "hit")>>
                  \o rest
             ELSE rest

\* Queue and backlog mode: the batch is read from the store.  The read
\* can fail (requests missing, transport or server error), which ends the
\* process; an empty batch ends it cleanly.
SelectBatch ==
    /\ pc = "select"
    /\ UNCHANGED <<handler, runs>>
    /\ ~TruthyUrl(args.url)
    /\ args.from_queue \/ args.from_strategy_videos
    /\ LET backlog == args.from_strategy_videos
           req  == IF backlog THEN BacklogRequest(supabase_url, supabase_key)
                   ELSE QueueRequest(supabase_url, supabase_key)
           rows == IF backlog THEN BacklogRows(videos) ELSE QueueRows(queue)
       IN  \E answer \in {"no_requests", "raise", "ok"} :
             /\ last' = [op |-> "GET", answer |-> answer]
             /\ CASE answer = "no_requests" ->
                       /\ Exit(1, "import_error")
                       /\ UNCHANGED <<urls_to_process, log>>
                  [] answer = "raise" ->
                       /\ Exit(1, "fetch_error")
                       /\ log' = Append(log, Event("GET", 0, req, "raise"))
                       /\ UNCHANGED urls_to_process
                  [] answer = "ok" ->
                       /\ urls_to_process' = BuildBatch(rows, backlog)
                       /\ log' = Append(log, Event("GET", 0, req, "ok"))
                                 \o ClassifyEvents(rows, backlog)
                       /\ IF BuildBatch(rows, backlog) = <<>>
                          THEN Exit(0, "empty")
                          ELSE /\ pc' = "loop"
                               /\ UNCHANGED <<exit_code, exit_cause>>
    /\ UNCHANGED <<env, args, videos, queue, supabase_url, supabase_key, i,
                   downloaded, transcript, fs>>

\* Neither a URL nor a mode: usage is printed.
Usage ==
    /\ pc = "select"
    /\ UNCHANGED <<handler, runs>>
    /\ ~TruthyUrl(args.url)
    /\ ~(args.from_queue \/ args.from_strategy_videos)
    /\ Exit(1, "usage")
    /\ last' = NoDetail
    /\ UNCHANGED <<env, args, videos, queue, supabase_url, supabase_key,
                   urls_to_process, i, downloaded, transcript, fs, log>>

\* The item the loop is at, and the status request main sends for it.
Current == urls_to_process[i]

StatusRequest(status, error) ==
    set_ingest_status(supabase_url, supabase_key, Current.video_id,
                      Current.platform, status, error)

\* The outcomes of a status write: applied, or an error raised with
\* nothing applied.
WriteOutcomes == {"ok", "raise"}

Written(table, req, w) == IF w = "ok" THEN ApplyPatch(table, req) ELSE table

\* A loop that stays at the item it has just worked on.
NextItem_again(k) == k

\* for item in urls_to_process: the loop moves on to the next item.
NextItem(k) == k + 1

\* A loop body that never takes the --dry-run branch.
IsDryRun_never(a) == FALSE

\* The test of --dry-run at the head of the loop body.
IsDryRun(a) == a.dry_run

\* An initial status write whose error is not caught: it leaves main.
AfterMark_uncaught(w) == IF w = "raise" THEN "exit" ELSE "acquire"

\* Where main goes after the initial status write with outcome w: the
\* error is caught and printed, the item proceeds either way.
AfterMark(w) == "acquire"

\* A test that takes no transcript for empty.
IsEmpty_never(t) == FALSE

\* "if not transcript"
IsEmpty(t) == t = <<>>

\* The loop has run out of items: main returns.
Finish ==
    /\ pc = "loop"
    /\ UNCHANGED <<handler, runs>>
    /\ i > Len(urls_to_process)
    /\ Exit(0, "completed")
    /\ last' = NoDetail
    /\ UNCHANGED <<env, args, videos, queue, supabase_url, supabase_key,
                   urls_to_process, i, downloaded, transcript, fs, log>>

\* --dry-run: the item is printed and the loop continues.
DryRunItem ==
    /\ pc = "loop"
    /\ UNCHANGED <<handler, runs>>
    /\ i <= Len(urls_to_process)
    /\ IsDryRun(args)
    /\ log' = Append(log, Event("print", i, [url |-> Current.url], "Would process"))
    /\ i' = NextItem(i)
    /\ last' = NoDetail
    /\ UNCHANGED <<env, args, videos, queue, pc, supabase_url, supabase_key,
                   urls_to_process, downloaded, transcript, fs, exit_code,
                   exit_cause>>

\* The best-effort initial status write.
MarkTranscribing ==
    /\ pc = "loop"
    /\ UNCHANGED <<handler, runs>>
    /\ i <= Len(urls_to_process)
    /\ ~IsDryRun(args)
    /\ \E w \in WriteOutcomes :
         LET req == StatusRequest("transcribing", NoText)
         IN  /\ videos' = Written(videos, req, w)
             /\ log' = Append(log, Event("PATCH", i, req, w))
             /\ last' = [op |-> "PATCH", outcome |-> w]
             /\ pc' = AfterMark(w)
    /\ UNCHANGED <<env, args, queue, supabase_url, supabase_key,
                   urls_to_process, i, downloaded, transcript, fs, exit_code,
                   exit_cause>>

\* The scratch directory is made and the downloader run in it.  Without
\* an audio file the item is recorded as failed and the loop continues.
Acquire ==
    /\ pc = "acquire"
    /\ UNCHANGED <<handler, runs>>
    /\ \E o \in DownloadOutcomes :
         LET got   == download_audio(o)
             made  == fs \cup {ScratchDir(i)}
                         \cup {AudioFile(i, e) : e \in o.files}
             req   == StatusRequest("failed", Text("Download failed"))
             tried == log \o <<Event("mkdtemp", i, NoRequest, "ok"),
                               Event("yt_dlp", i, [url |-> Current.url],
                                     IF got = None THEN "None" ELSE "path")>>
         IN  /\ last' = [op |-> "yt_dlp", outcome |-> o]
             /\ IF got = None
                THEN \E w \in WriteOutcomes :
                       /\ videos' = Written(videos, req, w)
                       /\ log' = Append(tried, Event("PATCH", i, req, w))
                       /\ fs' = Cleanup(made, i)
                       /\ i' = NextItem(i)
                       /\ pc' = "loop"
                       /\ UNCHANGED downloaded
                ELSE /\ downloaded' = got
                     /\ log' = tried
                     /\ fs' = made
                     /\ pc' = "transcribe"
                     /\ UNCHANGED <<videos, i>>
    /\ UNCHANGED <<env, args, queue, supabase_url, supabase_key,
                   urls_to_process, transcript, exit_code, exit_cause>>

\* transcribe(downloaded), called outside any try: with no strategy the
\* process exits, an error raised by the strategy leaves main, an empty
\* text records the item as failed.  The with block removes the scratch
\* directory on each of these ways out.
Transcribe ==
    /\ pc = "transcribe"
    /\ UNCHANGED <<handler, runs>>
    /\ LET strategy == Strategy(env)
           call == [strategy |-> strategy,
                    file |-> AudioFile(i, downloaded),
                    mime |-> IF strategy = "groq" THEN mime(downloaded) ELSE None]
           req  == StatusRequest("failed", Text("Empty transcript"))
       IN  /\ IF strategy = "none"
              THEN /\ Exit(1, "no_strategy")
                   /\ last' = [op |-> "transcribe", call |-> call]
                   /\ log' = Append(log, Event("transcribe", i, [strategy |-> strategy], "exit"))
                   /\ fs' = Cleanup(fs, i)
                   /\ downloaded' = None
                   /\ UNCHANGED <<videos, i, transcript>>
              ELSE \E o \in TranscribeOutcomes :
                     /\ last' = [op |-> "transcribe", call |-> call,
                                 outcome |-> o]
                     /\ IF o.kind = "raise"
                        THEN /\ Exit(1, "transcribe_error")
                             /\ log' = Append(log, Event("transcribe", i,
                                              [strategy |-> strategy], "raise"))
                             /\ fs' = Cleanup(fs, i)
                             /\ downloaded' = None
                             /\ UNCHANGED <<videos, i, transcript>>
                        ELSE IF IsEmpty(o.text)
                        THEN \E w \in WriteOutcomes :
                               /\ videos' = Written(videos, req, w)
                               /\ log' = log \o
                                    <<Event("transcribe", i,
                                            [strategy |-> strategy], "empty"),
                                      Event("PATCH", i, req, w)>>
                               /\ fs' = Cleanup(fs, i)
                               /\ i' = NextItem(i)
                               /\ pc' = "loop"
                               /\ downloaded' = None
                               /\ UNCHANGED <<transcript, exit_code, exit_cause>>
                        ELSE /\ transcript' = o.text
                             /\ log' = Append(log, Event("transcribe", i,
                                              [strategy |-> strategy], "text"))
                             /\ pc' = "extract"
                             /\ UNCHANGED <<videos, i, fs, downloaded,
                                            exit_code, exit_cause>>
    /\ UNCHANGED <<env, args, queue, supabase_url, supabase_key,
                   urls_to_process>>

\* reel_url = url if platform == "instagram" else None
reel_url_of(item) ==
    IF item.platform = "instagram" THEN item.url ELSE NoUrl

\* A canonical URL that is set for every platform.
canonical_url_of_always(item) == item.url

\* canonical_url = url if platform != "instagram" else None
canonical_url_of(item) ==
    IF item.platform # "instagram" THEN item.url ELSE NoUrl

\* The transcript is submitted; an error raised by call_extract is caught
\* and recorded as failed.  Nothing is written on success.
Extract ==
    /\ pc = "extract"
    /\ UNCHANGED <<handler, runs>>
    /\ \E resp \in Responses :
         LET post == ExtractRequest(supabase_url, supabase_key,
                                    Current.video_id, Current.platform,
                                    transcript, reel_url_of(Current),
                                    canonical_url_of(Current))
             r    == call_extract(resp)
             req  == StatusRequest("failed", r.value)
             sent == Append(log, Event("POST", i, post,
                                       IF r.raised THEN "raise" ELSE "ok"))
         IN  /\ last' = [op |-> "POST", resp |-> resp]
             /\ IF r.raised
                THEN \E w \in WriteOutcomes :
                       /\ videos' = Written(videos, req, w)
                       /\ log' = Append(sent, Event("PATCH", i, req, w))
                ELSE /\ log' = sent
                     /\ UNCHANGED videos
    /\ fs' = Cleanup(fs, i)
    /\ i' = NextItem(i)
    /\ pc' = "loop"
    /\ downloaded' = None
    /\ transcript' = NoText
    /\ UNCHANGED <<env, args, queue, supabase_url, supabase_key,
                   urls_to_process, exit_code, exit_cause>>

Next ==
    \/ Configure
    \/ SelectSingle
    \/ SelectBatch
    \/ Usage
    \/ Finish
    \/ DryRunItem
    \/ MarkTranscribing
    \/ Acquire
    \/ Transcribe
    \/ Extract

Spec == Init /\ [][Next]_vars

\* ------------------------------------------------------------------------
\* The trigger handler: one POST, which runs main as a child process
\* ------------------------------------------------------------------------

\* The largest table the store holds when the handler is triggered.
TriggerRows == 1

\* The return code of a child killed at the timeout.
Killed == -9

\* os.environ.get("SUPABASE_URL") or os.environ.get("VITE_SUPABASE_URL")
HandlerUrl(e) == Or(e.SUPABASE_URL, e.VITE_SUPABASE_URL)

\* The environment the child is given.
ChildEnv(e) ==
    [e EXCEPT !.SUPABASE_URL = HandlerUrl(e),
              !.SUPABASE_ANON_KEY = ResolveKey(e)]

\* [sys.executable, script, "--from-strategy-videos"]
ChildArgs ==
    [url |-> NoUrl, from_queue |-> FALSE, from_strategy_videos |-> TRUE,
     dry_run |-> FALSE]

\* What the child has written to its standard error when it ends: the
\* traceback of the error that left main, nothing when main returned or
\* called sys.exit (its messages are printed to standard output).
Stderr(cause) ==
    IF cause \in {"fetch_error", "transcribe_error"} THEN Text("traceback")
    ELSE IF cause = "import_error" THEN Text("ImportError")
    ELSE <<>>

\* self._send(status, body)
Send(status, body) == [status |-> status, body |-> body]

\* A handler that answers a failed run with an error status.
Answer_failing(result) ==
    IF result.kind = "timeout"
    THEN Send(200, [ok |-> TRUE, ran |-> TRUE, timeout |-> TRUE])
    ELSE IF result.returncode # 0
    THEN Send(500, [error |-> Take(result.stderr, 500)])
    ELSE Send(200, [ok |-> TRUE, ran |-> TRUE])

\* The response do_POST sends for the result of subprocess.run.
Answer(result) ==
    IF result.kind = "timeout"
    THEN Send(200, [ok |-> TRUE, ran |-> TRUE, timeout |-> TRUE])
    ELSE IF result.returncode # 0
    THEN Send(200, [ok |-> TRUE, ran |-> TRUE,
                    stderr |-> Take(result.stderr, 500)])
    ELSE Send(200, [ok |-> TRUE, ran |-> TRUE])

TriggerInit ==
    /\ env \in Envs
    /\ args = ChildArgs
    /\ \E st \in Stores :
          /\ Len(st.videos) <= TriggerRows
          /\ videos = st.videos
          /\ queue = st.queue
    /\ pc = "idle"
    /\ supabase_url = None
    /\ supabase_key = None
    /\ urls_to_process = <<>>
    /\ i = 1
    /\ downloaded = None
    /\ transcript = NoText
    /\ fs = {}
    /\ exit_code = Running
    /\ exit_cause = None
    /\ log = <<>>
    /\ last = NoDetail
    /\ \E script \in BOOLEAN :
          handler = [pc |-> "received", script |-> script, responses |-> <<>>]
    /\ runs = NoRuns

\* The handler sends a response and is done.
Respond(r) ==
    handler' = [handler EXCEPT !.pc = "done",
                               !.responses = Append(@, r)]

\* do_POST up to the start of the child: the configuration and the script
\* are checked, then the child is started, which can fail.
do_POST ==
    /\ handler.pc = "received"
    /\ IF ~Truthy(HandlerUrl(env)) \/ ~Truthy(ResolveKey(env))
       THEN /\ Respond(Send(400, [error |-> "Set SUPABASE_URL"]))
            /\ UNCHANGED <<env, pc>>
       ELSE IF ~handler.script
       THEN /\ Respond(Send(500, [error |-> "ingest_video.py not found"]))
            /\ UNCHANGED <<env, pc>>
       ELSE \E started \in BOOLEAN :
              IF started
              THEN /\ handler' = [handler EXCEPT !.pc = "waiting"]
                   /\ env' = ChildEnv(env)
                   /\ pc' = "start"
              ELSE /\ Respond(Send(500, [error |-> "OSError"]))
                   /\ UNCHANGED <<env, pc>>
    /\ UNCHANGED <<args, videos, queue, supabase_url, supabase_key,
                   urls_to_process, i, downloaded, transcript, fs, exit_code,
                   exit_cause, log, last, runs>>

\* The child has run for 55 seconds: it is killed where it is, and
\* subprocess.run raises TimeoutExpired.
TimeoutExpired ==
    /\ handler.pc = "waiting"
    /\ pc # "exit"
    /\ pc' = "killed"
    /\ exit_code' = Killed
    /\ Respond(Answer([kind |-> "timeout"]))
    /\ UNCHANGED <<env, args, videos, queue, supabase_url, supabase_key,
                   urls_to_process, i, downloaded, transcript, fs,
                   exit_cause, log, last, runs>>

\* The child has ended: subprocess.run returns its result.
Returned ==
    /\ handler.pc = "waiting"
    /\ pc = "exit"
    /\ Respond(Answer([kind |-> "exit", returncode |-> exit_code,
                       stderr |-> Stderr(exit_cause)]))
    /\ UNCHANGED <<env, args, videos, queue, pc, supabase_url, supabase_key,
                   urls_to_process, i, downloaded, transcript, fs, exit_code,
                   exit_cause, log, last, runs>>

TriggerNext ==
    \/ do_POST
    \/ TimeoutExpired
    \/ Returned
    \/ Configure
    \/ SelectBatch
    \/ Finish
    \/ MarkTranscribing
    \/ Acquire
    \/ Transcribe
    \/ Extract

TriggerSpec == TriggerInit /\ [][TriggerNext]_vars

\* ------------------------------------------------------------------------
\* Backlog runs at once.  Each POST to the trigger handler starts a run of
\* main with --from-strategy-videos, and nothing keeps two of them apart.
\* Of the steps of a run only those that touch strategy_videos are kept
\* here: its selection read and its status writes.
\* ------------------------------------------------------------------------

\* The largest strategy_videos table the runs work on.
RunsRows == 1

\* The runs.
Runs == {"a", "b"}

\* What an earlier run can have left in a row's ingest_status.
LeftBehind == {None, "transcribing", "failed"}

\* The messages of the failed writes that name no response.
FailureTexts == {Text("Download failed"), Text("Empty transcript")}

RunsInit ==
    /\ env \in {e \in Envs : /\ Truthy(ResolveUrl(e))
                              /\ Truthy(ResolveKey(e))
                              /\ Strategy(e) = "groq"}
    /\ args = ChildArgs
    /\ \E t \in Tables(SampleVideos) : \E left \in LeftBehind :
          /\ Len(t) <= RunsRows
          /\ videos = [k \in DOMAIN t |-> [t[k] EXCEPT !.ingest_status = left]]
    /\ queue = SubSeq(SampleQueue, 1, 1)
    /\ pc = "idle"
    /\ supabase_url = None
    /\ supabase_key = None
    /\ urls_to_process = <<>>
    /\ i = 1
    /\ downloaded = None
    /\ transcript = NoText
    /\ fs = {}
    /\ exit_code = Running
    /\ exit_cause = None
    /\ log = <<>>
    /\ last = NoDetail
    /\ handler = NoHandler
    /\ runs = [r \in Runs |->
                  [pc |-> "select", read |-> None, batch |-> <<>>, i |-> 1,
                   ended |-> <<>>]]

\* The status request run r sends for the item it is at.
RunRequest(r, status, error) ==
    set_ingest_status(ResolveUrl(env), ResolveKey(env),
                      runs[r].batch[runs[r].i].video_id,
                      runs[r].batch[runs[r].i].platform, status, error)

\* Run r reads its batch from the store; the read can fail, and an empty
\* batch ends the run.
RunSelect(r) ==
    /\ runs[r].pc = "select"
    /\ \E answer \in {"raise", "ok"} :
         LET batch == BuildBatch(BacklogRows(videos), TRUE)
         IN  /\ runs' = [runs EXCEPT
                            ![r].read = answer,
                            ![r].batch = IF answer = "ok" THEN batch ELSE <<>>,
                            ![r].pc = IF answer = "ok" /\ batch # <<>>
                                      THEN "loop" ELSE "exit"]
             /\ last' = [op |-> "GET", answer |-> answer, run |-> r]
    /\ UNCHANGED <<env, args, videos, queue, pc, supabase_url, supabase_key,
                   urls_to_process, i, downloaded, transcript, fs, exit_code,
                   exit_cause, log, handler>>

\* Run r's initial status write for its next item.
RunMark(r) ==
    /\ runs[r].pc = "loop"
    /\ runs[r].i <= Len(runs[r].batch)
    /\ \E w \in WriteOutcomes :
         LET req == RunRequest(r, "transcribing", NoText)
         IN  /\ videos' = Written(videos, req, w)
             /\ last' = [op |-> "PATCH", outcome |-> w, run |-> r,
                         req |-> req]
    /\ runs' = [runs EXCEPT ![r].pc = "work"]
    /\ UNCHANGED <<env, args, queue, pc, supabase_url, supabase_key,
                   urls_to_process, i, downloaded, transcript, fs, exit_code,
                   exit_cause, log, handler>>

\* Run r's work on the item ends with a failed write and the next item.
RunFail(r) ==
    /\ runs[r].pc = "work"
    /\ \E message \in FailureTexts : \E w \in WriteOutcomes :
         LET req == RunRequest(r, "failed", message)
         IN  /\ videos' = Written(videos, req, w)
             /\ last' = [op |-> "PATCH", outcome |-> w, run |-> r,
                         req |-> req]
             /\ runs' = [runs EXCEPT
                            ![r].pc = "loop",
                            ![r].i = NextItem(@),
                            ![r].ended = Append(@, IF w = "ok" THEN "failed"
                                                   ELSE "unrecorded")]
    /\ UNCHANGED <<env, args, queue, pc, supabase_url, supabase_key,
                   urls_to_process, i, downloaded, transcript, fs, exit_code,
                   exit_cause, log, handler>>

\* Run r's work on the item ends with nothing written: the extraction
\* went through, or an error raised by the transcriber ended the run.
RunPass(r) ==
    /\ runs[r].pc = "work"
    /\ \E end \in {"extracted", "died"} :
         runs' = [runs EXCEPT
                    ![r].pc = IF end = "died" THEN "exit" ELSE "loop",
                    ![r].i = IF end = "died" THEN @ ELSE NextItem(@),
                    ![r].ended = Append(@, end)]
    /\ last' = NoDetail
    /\ UNCHANGED <<env, args, videos, queue, pc, supabase_url, supabase_key,
                   urls_to_process, i, downloaded, transcript, fs, exit_code,
                   exit_cause, log, handler>>

\* Run r has run out of items.
RunFinish(r) ==
    /\ runs[r].pc = "loop"
    /\ runs[r].i > Len(runs[r].batch)
    /\ runs' = [runs EXCEPT ![r].pc = "exit"]
    /\ last' = NoDetail
    /\ UNCHANGED <<env, args, videos, queue, pc, supabase_url, supabase_key,
                   urls_to_process, i, downloaded, transcript, fs, exit_code,
                   exit_cause, log, handler>>

RunsNext ==
    \E r \in Runs :
        \/ RunSelect(r)
        \/ RunMark(r)
        \/ RunFail(r)
        \/ RunPass(r)
        \/ RunFinish(r)

RunsSpec == RunsInit /\ [][RunsNext]_vars

\* ------------------------------------------------------------------------
\* Vocabulary of the properties
\* ------------------------------------------------------------------------

Items == 1..Len(urls_to_process)

\* Positions of the log holding operation op of item k.
At(k, op) == {n \in 1..Len(log) : log[n].item = k /\ log[n].op = op}

\* Positions of the log holding a status write of item k with this status.
Writes(k, status) ==
    {n \in At(k, "PATCH") : log[n].req.body.ingest_status = status}

\* The loop body has been entered for item k.
Started(k) == \E n \in 1..Len(log) : log[n].item = k

\* The processing of item k is over.
Ended(k) == Started(k) /\ (i > k \/ pc = "exit")

\* The calls to the remote store and its functions.
RemoteCalls == {n \in 1..Len(log) : log[n].op \in {"GET", "PATCH", "POST"}}

\* The body of a failed write with the given message.
FailedBody(message) == [ingest_status |-> "failed", ingest_error |-> message]

\* Item k failed at acquisition, at transcription or at extraction.
FailedAt(k) ==
    \/ \E n \in At(k, "yt_dlp") : log[n].res = "None"
    \/ \E n \in At(k, "transcribe") : log[n].res \in {"raise", "empty"}
    \/ \E n \in At(k, "POST") : log[n].res = "raise"

\* ------------------------------------------------------------------------
\* Properties
\* ------------------------------------------------------------------------

\* C1: an item's failure at acquisition, transcription (an error raised by
\* the transcriber included) or extraction is recorded as failed for that
\* item and never aborts the batch: when the process has ended with a
\* transcription strategy available, every item of the batch was started
\* and every item that failed had a failed write issued.
C1_FailureNeverAbortsBatch ==
    (pc = "exit" /\ urls_to_process # <<>> /\ ~args.dry_run
        /\ Strategy(env) # "none")
    => \A k \in Items :
         /\ Started(k)
         /\ FailedAt(k) => Writes(k, "failed") # {}

\* C2: in a run that ran to completion with every status write applied,
\* each processed item was first written as transcribing and was last
\* written as done or failed.
C2_EndsAtTerminalStatus ==
    \A k \in Items :
        (/\ Ended(k)
         /\ ~args.dry_run
         /\ exit_cause \notin {"transcribe_error", "no_strategy"}
         /\ \A n \in RemoteCalls : log[n].res = "ok")
        => /\ At(k, "PATCH") # {}
           /\ LET first == CHOOSE n \in At(k, "PATCH") :
                               \A m \in At(k, "PATCH") : n <= m
                  final == CHOOSE n \in At(k, "PATCH") :
                               \A m \in At(k, "PATCH") : n >= m
              IN  /\ log[first].req.body.ingest_status = "transcribing"
                  /\ log[final].req.body.ingest_status \in {"done", "failed"}

\* C3: when the process ends because no transcription strategy is
\* available, nothing has been done for any item: no status write, no
\* scratch allocation, no download.
C3_NoStrategyBeforeAnyItem ==
    exit_cause = "no_strategy"
    => /\ exit_code = 1
       /\ \A n \in 1..Len(log) : log[n].op \notin {"PATCH", "mkdtemp", "yt_dlp"}

\* C4: once the loop over the items has started with a transcription
\* strategy available, the process exits with code 0 whatever happens to
\* the items.
C4_ExitCodeIgnoresItems ==
    (pc = "exit" /\ urls_to_process # <<>> /\ Strategy(env) # "none")
    => exit_code = 0

\* C5: an error raised by a status write aborts nothing and skips nothing:
\* after a failed initial write the item goes on to audio acquisition,
\* after a failed write of "failed" the loop is at a later item, and a
\* process whose last interaction was a status write that raised has
\* ended only by running out of items.
C5_StatusWriteErrorsIgnored ==
    /\ \A k \in Items : \A n \in Writes(k, "transcribing") :
          (log[n].res = "raise" /\ pc # "acquire")
          => \E m \in At(k, "yt_dlp") : m > n
    /\ \A k \in Items : \A n \in Writes(k, "failed") :
          log[n].res = "raise" => i > k
    /\ (/\ pc = "exit"
        /\ log # <<>>
        /\ log[Len(log)].op = "PATCH"
        /\ log[Len(log)].res = "raise")
       => (exit_code = 0 /\ exit_cause = "completed"
           /\ i > Len(urls_to_process))

C5_Witness ==
    /\ pc = "exit"
    /\ exit_cause = "completed"
    /\ Len(urls_to_process) = 2
    /\ \E n \in Writes(1, "transcribing") : log[n].res = "raise"
    /\ \E n \in Writes(1, "failed") : log[n].res = "raise"
    /\ Started(2)

\* C6: scratch storage exists only for the item being processed, between
\* its audio acquisition and the end of its processing: at most one
\* item's directory exists, none of an item whose processing has ended,
\* and none once the process has exited.
C6_ScratchReleased ==
    /\ Cardinality({p[1] : p \in fs}) <= 1
    /\ \A p \in fs : p[1] = i /\ pc \in {"transcribe", "extract"}
    /\ \A k \in Items : Ended(k) => ~\E p \in fs : p[1] = k
    /\ pc \in {"transcribe", "extract"} => ScratchDir(i) \in fs

C6_Witness ==
    /\ pc = "exit"
    /\ exit_cause = "transcribe_error"
    /\ At(1, "mkdtemp") # {}
    /\ At(2, "mkdtemp") # {}
    /\ \E n \in At(1, "POST") : log[n].res = "raise"
    /\ fs = {}

\* C7: when the downloader times out, cannot be started, exits non-zero
\* or leaves no file with a known extension, download_audio returns None;
\* and for every item whose download returned None the next interaction
\* is the write of failed with the message "Download failed", the item is
\* neither transcribed nor submitted for extraction, and the loop has
\* moved past it.
C7_DownloadFailureSkipsItem ==
    /\ (/\ last.op = "yt_dlp"
        /\ \/ last.outcome.kind # "exit"
           \/ last.outcome.returncode # 0
           \/ last.outcome.files \cap {"m4a", "webm", "mp3", "opus"} = {})
       => (pc = "loop" /\ log[Len(log) - 1].op = "yt_dlp"
           /\ log[Len(log) - 1].res = "None")
    /\ \A k \in Items : \A n \in At(k, "yt_dlp") :
          log[n].res = "None"
          => /\ n < Len(log)
             /\ log[n + 1].op = "PATCH"
             /\ log[n + 1].item = k
             /\ log[n + 1].req.body = FailedBody(Text("Download failed"))
             /\ At(k, "transcribe") = {}
             /\ At(k, "POST") = {}
             /\ i > k

C7_Witness ==
    /\ last.op = "yt_dlp"
    /\ last.outcome.kind = "timeout"
    /\ Len(urls_to_process) = 2
    /\ i = 2
    /\ pc = "loop"
    /\ Writes(1, "failed") # {}

\* C8: when the transcriber returns an empty text, under either strategy,
\* the next interaction is the write of failed with the message "Empty
\* transcript", the loop has moved past the item, and no extraction
\* request is sent for it: no extraction request carries an empty
\* transcript.
C8_EmptyTranscriptFails ==
    /\ (/\ last.op = "transcribe"
        /\ "outcome" \in DOMAIN last
        /\ last.outcome.kind = "return"
        /\ last.outcome.text = <<>>)
       => (/\ pc = "loop"
           /\ log[Len(log) - 1].op = "transcribe"
           /\ log[Len(log) - 1].res = "empty")
    /\ \A k \in Items : \A n \in At(k, "transcribe") :
          log[n].res = "empty"
          => /\ n < Len(log)
             /\ log[n + 1].op = "PATCH"
             /\ log[n + 1].item = k
             /\ log[n + 1].req.body = FailedBody(Text("Empty transcript"))
             /\ At(k, "POST") = {}
             /\ i > k
    /\ \A n \in 1..Len(log) :
          log[n].op = "POST" => log[n].req.body.transcript # <<>>

C8_Witness ==
    /\ last.op = "transcribe"
    /\ last.call.strategy = "local"
    /\ "outcome" \in DOMAIN last
    /\ last.outcome.kind = "return"
    /\ last.outcome.text = <<>>
    /\ Len(urls_to_process) = 2
    /\ i = 2
    /\ \E n \in At(1, "transcribe") : log[n].res = "empty"

\* C9 as stated: with --dry-run nothing but classification and printing
\* happens, in every mode; in particular the remote store is not read.
C9_DryRunTouchesNothing ==
    args.dry_run
    => /\ \A n \in 1..Len(log) : log[n].op \in {"parse_url", "print"}
       /\ fs = {}

\* C9, amended: with --dry-run no status write, download, scratch
\* allocation, transcription or extraction request occurs in any mode and
\* the store's records are left as they were; the only remote call is the
\* one read that selects the batch in queue and backlog mode; and a run
\* that completes has printed each item once.
C9_DryRunOnlySelects ==
    args.dry_run
    => /\ \A n \in 1..Len(log) : log[n].op \in {"parse_url", "print", "GET"}
       /\ \A n \in 1..Len(log) :
             log[n].op = "GET" => (n = 1 /\ ~TruthyUrl(args.url))
       /\ fs = {}
       /\ \E st \in Stores : videos = st.videos /\ queue = st.queue
       /\ exit_cause = "completed"
          => \A k \in Items : Cardinality(At(k, "print")) = 1

C9_Witness ==
    /\ args.dry_run
    /\ args.from_queue
    /\ pc = "exit"
    /\ exit_cause = "completed"
    /\ Len(urls_to_process) = 2
    /\ At(1, "print") # {}
    /\ At(2, "print") # {}
    /\ log[1].op = "GET"

\* C10: when neither variable for the store URL, or none of the three
\* for the credential, is set to a non-empty value, the process has, once
\* past its configuration step, exited with code 1 having classified no
\* URL, issued no remote call and processed no item; and when both the
\* privileged and the restricted credential are set, every remote call
\* carries the privileged one.
C10_ConfigurationChecked ==
    /\ (\/ ~Truthy(env.SUPABASE_URL) /\ ~Truthy(env.VITE_SUPABASE_URL)
        \/ /\ ~Truthy(env.SUPABASE_SERVICE_ROLE_KEY)
           /\ ~Truthy(env.SUPABASE_ANON_KEY)
           /\ ~Truthy(env.VITE_SUPABASE_ANON_KEY))
       => /\ pc \in {"start", "exit"}
          /\ pc = "exit" => (exit_code = 1 /\ exit_cause = "config")
          /\ log = <<>>
          /\ urls_to_process = <<>>
          /\ fs = {}
    /\ (Truthy(env.SUPABASE_SERVICE_ROLE_KEY) /\ Truthy(env.SUPABASE_ANON_KEY))
       => \A n \in RemoteCalls :
             log[n].req.key = env.SUPABASE_SERVICE_ROLE_KEY

C10_Witness ==
    /\ Truthy(env.SUPABASE_SERVICE_ROLE_KEY)
    /\ Truthy(env.SUPABASE_ANON_KEY)
    /\ \E n \in RemoteCalls : log[n].op = "GET"
    /\ \E n \in RemoteCalls : log[n].op = "PATCH"
    /\ \E n \in RemoteCalls : log[n].op = "POST"
    /\ pc = "exit"

\* C11: every extraction request carries exactly one of reel_url and
\* canonical_url: reel_url holds the item's source URL exactly when the
\* platform is instagram, canonical_url holds it exactly otherwise, and the
\* other field is null.
C11_ExactlyOneSourceUrl ==
    \A n \in 1..Len(log) :
        log[n].op = "POST" =>
            LET body == log[n].req.body
                item == urls_to_process[log[n].item]
            IN  /\ (body.reel_url # NoUrl) # (body.canonical_url # NoUrl)
                /\ (body.reel_url # NoUrl) <=> (body.platform = "instagram")
                /\ body.platform = item.platform
                /\ body.platform = "instagram" =>
                       body.reel_url = item.url /\ TruthyUrl(item.url)
                /\ body.platform # "instagram" =>
                       body.canonical_url = item.url /\ TruthyUrl(item.url)

\* Both cases have happened: a request for an instagram item and one for
\* an item of another platform.
C11_Witness ==
    /\ \E n \in 1..Len(log) :
          /\ log[n].op = "POST"
          /\ log[n].req.body.platform = "instagram"
          /\ log[n].req.body.canonical_url = NoUrl
    /\ \E n \in 1..Len(log) :
          /\ log[n].op = "POST"
          /\ log[n].req.body.platform # "instagram"
          /\ log[n].req.body.reel_url = NoUrl

\* The message main hands to the status write at position n of the log
\* (NoText: none), read off the step that led to the write.
GivenMessage(n) ==
    IF log[n].req.body.ingest_status # "failed" THEN NoText
    ELSE IF log[n - 1].op = "yt_dlp" THEN Text("Download failed")
    ELSE IF log[n - 1].op = "transcribe" THEN Text("Empty transcript")
    ELSE call_extract(last.resp).value

\* The status writes the store applied to the row.
Hits(row) ==
    {n \in 1..Len(log) :
        /\ log[n].op = "PATCH"
        /\ log[n].res = "ok"
        /\ log[n].req.params.video_id = row.video_id
        /\ log[n].req.params.platform = row.platform}

\* C12: a status write carrying an error message writes the first 500
\* characters of the message when it is longer and the message unchanged
\* otherwise, so never more than 500; a write without a message has no
\* ingest_error in its update; and a write changes only rows whose
\* video_id and platform both equal those of the item written for.
C12_StatusWriteShape ==
    /\ \A n \in 1..Len(log) :
          log[n].op = "PATCH" =>
              LET body == log[n].req.body
                  item == urls_to_process[log[n].item]
              IN  /\ log[n].req.params =
                        [video_id |-> item.video_id, platform |-> item.platform]
                  /\ body.ingest_status = "transcribing" =>
                        "ingest_error" \notin DOMAIN body
                  /\ "ingest_error" \in DOMAIN body =>
                        TextLen(body.ingest_error) <= 500
                  /\ (/\ n = Len(log)
                      /\ body.ingest_status = "failed"
                      /\ last.op \in {"yt_dlp", "transcribe", "POST"}) =>
                        LET given == GivenMessage(n)
                        IN  /\ "ingest_error" \in DOMAIN body
                            /\ TextLen(given) > 500 =>
                                  /\ body.ingest_error = Take(given, 500)
                                  /\ TextLen(body.ingest_error) = 500
                            /\ TextLen(given) <= 500 =>
                                  body.ingest_error = given
    /\ \A k \in DOMAIN videos :
          IF Hits(videos[k]) = {}
          THEN /\ videos[k].ingest_status = None
               /\ videos[k].ingest_error = NoText
          ELSE LET n == CHOOSE m \in Hits(videos[k]) :
                            \A j \in Hits(videos[k]) : j <= m
               IN  videos[k].ingest_status = log[n].req.body.ingest_status

\* A message longer than 500 characters was written cut to 500 and applied
\* to the item's row, while another row of the table matched no write.
C12_Witness ==
    /\ last.op = "POST"
    /\ Len(log) > 0
    /\ log[Len(log)].op = "PATCH"
    /\ log[Len(log)].res = "ok"
    /\ TextLen(GivenMessage(Len(log))) > 500
    /\ \E k \in DOMAIN videos :
          /\ Len(log) \in Hits(videos[k])
          /\ TextLen(videos[k].ingest_error) = 500
    /\ \E k \in DOMAIN videos :
          /\ Hits(videos[k]) = {}
          /\ videos[k].ingest_status = None
    /\ \E n \in 1..Len(log) :
          /\ log[n].op = "PATCH"
          /\ log[n].req.body.ingest_status = "transcribing"

\* The run is in queue or backlog mode and its selection read was answered.
Fetched ==
    /\ ~TruthyUrl(args.url)
    /\ args.from_queue \/ args.from_strategy_videos
    /\ \E n \in 1..Len(log) : log[n].op = "GET" /\ log[n].res = "ok"

\* No item was processed: nothing was done for any item of a batch.
NothingProcessed == \A n \in 1..Len(log) : log[n].item = 0

\* The URLs of the command lines and of the sample rows, and those of them
\* that the classifier matches.
SampleUrls ==
    {a.url : a \in ArgSets}
    \cup {SampleVideos[k].reel_url : k \in DOMAIN SampleVideos}
    \cup {SampleVideos[k].canonical_url : k \in DOMAIN SampleVideos}
    \cup {SampleQueue[k].url : k \in DOMAIN SampleQueue}

Classifiable == {u \in SampleUrls : TruthyUrl(u) /\ parse_url(u) # NoMatch}

\* C13: in single-URL mode an unclassifiable URL ends the process with a
\* non-zero exit code and no item processed; in queue and backlog mode the
\* batch is the fetched rows, in fetch order, less those whose URL is empty
\* or unclassifiable; and an empty batch ends the process with exit code 0
\* and no item processed.
C13_ClassificationMissPolicy ==
    /\ (/\ TruthyUrl(args.url)
        /\ pc \notin {"start", "select"}
        /\ args.url \notin Classifiable) =>
           /\ pc = "exit"
           /\ exit_code = 1
           /\ urls_to_process = <<>>
           /\ NothingProcessed
    /\ Fetched =>
           LET backlog == args.from_strategy_videos
               rows == IF backlog THEN BacklogRows(videos) ELSE QueueRows(queue)
               urls == [k \in 1..Len(rows) |->
                           IF backlog
                           THEN IF TruthyUrl(rows[k].reel_url)
                                THEN rows[k].reel_url
                                ELSE rows[k].canonical_url
                           ELSE rows[k].url]
               kept == SelectSeq(urls, LAMBDA u : u \in Classifiable)
           IN  /\ Len(urls_to_process) = Len(kept)
               /\ \A k \in 1..Len(kept) : urls_to_process[k].url = kept[k]
               /\ kept = <<>> =>
                      /\ pc = "exit"
                      /\ exit_code = 0
                      /\ NothingProcessed

\* A batch was fetched whose first row is unclassifiable: the row was
\* dropped, and the row after it was kept and processed.
C13_Witness ==
    /\ Fetched
    /\ args.from_strategy_videos
    /\ Len(BacklogRows(videos)) = 2
    /\ BacklogRows(videos)[1].canonical_url = U_bad
    /\ Len(urls_to_process) = 1
    /\ urls_to_process[1].url = BacklogRows(videos)[2].canonical_url
    /\ Ended(1)

\* What the classifier makes of each classifiable sample URL.
Classified == [u \in Classifiable |-> parse_url(u)]

\* C14: in backlog mode the batch is exactly the items derived, in order,
\* from the rows of strategy_videos whose heading is null and whose status
\* is "tracked": the source URL of a row is its reel_url when it has one
\* and its canonical_url otherwise, each row whose source URL classifies
\* gives one item, and a row with a heading gives none.
C14_BacklogWorkSet ==
    (Fetched /\ args.from_strategy_videos) =>
        LET eligible == SelectSeq(videos, LAMBDA r :
                            r.video_heading = None /\ r.status = "tracked")
            src == [k \in 1..Len(eligible) |->
                        IF TruthyUrl(eligible[k].reel_url)
                        THEN eligible[k].reel_url
                        ELSE eligible[k].canonical_url]
            work == SelectSeq(src, LAMBDA u : u \in Classifiable)
        IN  /\ Len(urls_to_process) = Len(work)
            /\ \A k \in 1..Len(work) :
                  /\ urls_to_process[k].url = work[k]
                  /\ urls_to_process[k].platform = Classified[work[k]].platform
                  /\ urls_to_process[k].video_id = Classified[work[k]].video_id
            /\ \A k \in DOMAIN videos :
                  (videos[k].video_heading # None \/ videos[k].status # "tracked") =>
                      \A j \in 1..Len(urls_to_process) :
                          /\ urls_to_process[j].url # videos[k].reel_url
                          /\ urls_to_process[j].url # videos[k].canonical_url

\* A backlog of a row having both URLs and a row having a heading was
\* fetched: the one item of the batch is that of the first row's reel_url.
C14_Witness ==
    /\ Fetched
    /\ args.from_strategy_videos
    /\ Len(videos) = 2
    /\ TruthyUrl(videos[1].reel_url)
    /\ TruthyUrl(videos[1].canonical_url)
    /\ videos[2].video_heading # None
    /\ Len(urls_to_process) = 1
    /\ urls_to_process[1].url = videos[1].reel_url
    /\ Ended(1)

\* The extraction request has just been answered with resp, and the status
\* write that followed it, if any, is the last entry of the log.
Answered(resp) == last.op = "POST" /\ last.resp = resp

\* The entry of the extraction request just answered.
PostEntry ==
    LET n == CHOOSE m \in 1..Len(log) :
                 /\ log[m].op = "POST"
                 /\ \A j \in (m + 1)..Len(log) : log[j].op # "POST"
    IN  log[n]

\* The text the failed write after the extraction request carries.
Recorded == log[Len(log)].req.body.ingest_error

\* The last entry of the log is a failed write for the item of the
\* extraction request just answered.
FailedRecorded ==
    /\ log[Len(log)].op = "PATCH"
    /\ log[Len(log)].item = PostEntry.item
    /\ log[Len(log)].req.body.ingest_status = "failed"

\* "Extract <status>: <message>"
ExtractError(status, message) ==
    Text("Extract ") \o StatusText(status) \o Text(": ") \o message

\* C16 as stated: a response with status >= 400 raises an error naming the
\* status and the body's error field, else its message field, else the raw
\* body cut to 200 characters, and failed is recorded with that text; a
\* response with a status below 400 raises nothing and nothing is recorded.
C16_ErrorMessageAsStated ==
    \A resp \in Responses :
        (Answered(resp) /\ resp.kind = "http") =>
            IF resp.status >= 400
            THEN LET chosen ==
                         IF resp.json # NoJson /\ "error" \in DOMAIN resp.json
                         THEN resp.json.error
                         ELSE IF resp.json # NoJson /\ "message" \in DOMAIN resp.json
                         THEN resp.json.message
                         ELSE Take(resp.text, 200)
                 IN  /\ PostEntry.res = "raise"
                     /\ FailedRecorded
                     /\ Recorded = ExtractError(resp.status, chosen)
            ELSE /\ PostEntry.res = "ok"
                 /\ log[Len(log)] = PostEntry

\* C16: a response with status >= 400 raises an error naming the status
\* and the body's error field, else its message field, else the raw body
\* cut to 200 characters or, when the body is empty, "HTTP <status>"; the
\* orchestrator records failed with the first 500 characters of that
\* error's text.  A response with a status below 400 raises nothing and
\* nothing is recorded.
C16_ErrorMessageChosen ==
    \A resp \in Responses :
        (Answered(resp) /\ resp.kind = "http") =>
            IF resp.status >= 400
            THEN LET chosen ==
                         IF resp.json # NoJson /\ "error" \in DOMAIN resp.json
                         THEN resp.json.error
                         ELSE IF resp.json # NoJson /\ "message" \in DOMAIN resp.json
                         THEN resp.json.message
                         ELSE IF resp.text # <<>> THEN Take(resp.text, 200)
                         ELSE Text("HTTP ") \o StatusText(resp.status)
                     text == ExtractError(resp.status, chosen)
                 IN  /\ PostEntry.res = "raise"
                     /\ FailedRecorded
                     /\ TextLen(chosen) <= 200 \/ resp.json # NoJson
                     /\ Recorded = IF TextLen(text) > 500
                                   THEN Take(text, 500) ELSE text
            ELSE /\ PostEntry.res = "ok"
                 /\ log[Len(log)] = PostEntry

\* An error status came with an empty body, and failed was recorded with
\* "Extract 503: HTTP 503".
C16_Witness ==
    /\ last.op = "POST"
    /\ last.resp.kind = "http"
    /\ last.resp.status = 503
    /\ last.resp.text = <<>>
    /\ FailedRecorded
    /\ log[Len(log)].res = "ok"
    /\ Recorded = ExtractError(503, Text("HTTP ") \o Text("503"))

\* C17: the hosted API is the strategy exactly when an API credential is
\* configured, and its upload has the content type of the audio file's
\* extension: audio/mp4 for m4a, audio/mpeg for mp3, audio/wav for wav,
\* audio/webm for webm, and the fallback audio/mp4 for any other.
C17_ContentTypeFromExtension ==
    last.op = "transcribe" =>
        /\ (last.call.strategy = "groq") <=>
               (env.GROQ_API_KEY # None /\ env.GROQ_API_KEY # "")
        /\ last.call.strategy = "groq" =>
               LET ext == last.call.file[3]
               IN  last.call.mime =
                       CASE ext = "m4a"  -> "audio/mp4"
                         [] ext = "mp3"  -> "audio/mpeg"
                         [] ext = "wav"  -> "audio/wav"
                         [] ext = "webm" -> "audio/webm"
                         [] OTHER        -> "audio/mp4"

\* Positions of the log holding a step of item k: its status write
\* transcribing, its download, its transcription, its extraction request.
Step(k, step) ==
    IF step = "mark" THEN Writes(k, "transcribing")
    ELSE IF step = "acquire" THEN At(k, "yt_dlp")
    ELSE IF step = "transcribe" THEN At(k, "transcribe")
    ELSE At(k, "POST")

\* C18: each item takes its steps in the order status write transcribing,
\* download, transcription, extraction, each at most once; a step is
\* taken only after the step before it, and a work step only after the
\* work step before it succeeded; a failed write comes after the item's
\* transcribing write, there is at most one per item and nothing of the
\* item follows it; and nothing of an item precedes anything of an
\* earlier item.  Stated on each pair of neighbouring entries of the log:
\* the second is the next step of the same item, allowed by the outcome of
\* the first, or the first step of the next item after the last step of
\* this one.
C18_ItemStepsInOrder ==
    /\ log # <<>> => log[1].item = 0
    /\ \A n \in 1..(Len(log) - 1) :
          LET e == log[n]
              f == log[n + 1]
              failed(x) == x.op = "PATCH" /\ x.req.body.ingest_status = "failed"
              first(x) == \/ x.op = "print"
                          \/ /\ x.op = "PATCH"
                             /\ x.req.body.ingest_status = "transcribing"
          IN  IF e.item = 0
              THEN f.item = 0 \/ (f.item = 1 /\ first(f))
              ELSE IF f.item # e.item
              THEN /\ f.item = e.item + 1
                   /\ first(f)
                   /\ \/ failed(e)
                      \/ e.op = "POST" /\ e.res = "ok"
                      \/ e.op = "print"
              ELSE CASE e.op = "PATCH" ->
                          ~failed(e) /\ f.op = "mkdtemp"
                     [] e.op = "mkdtemp" ->
                          f.op = "yt_dlp"
                     [] e.op = "yt_dlp" ->
                          IF e.res = "path" THEN f.op = "transcribe"
                          ELSE failed(f)
                     [] e.op = "transcribe" ->
                          IF e.res = "text" THEN f.op = "POST"
                          ELSE e.res = "empty" /\ failed(f)
                     [] e.op = "POST" ->
                          e.res = "raise" /\ failed(f)
                     [] OTHER -> FALSE
    /\ log # <<>> =>
          LET k == log[Len(log)].item
          IN  k > 0 => (k \in Items /\ k <= i /\ (k < i => pc \in {"loop", "exit"}))

\* Two items went through all four steps, the first was recorded as failed
\* after its extraction request, and the second started after that.
C18_Witness ==
    /\ Len(urls_to_process) = 2
    /\ Ended(2)
    /\ \A k \in Items :
          \A step \in {"mark", "acquire", "transcribe", "extract"} :
              Cardinality(Step(k, step)) = 1
    /\ Cardinality(Writes(1, "failed")) = 1
    /\ \A f \in Writes(1, "failed") : \A m \in Step(2, "mark") : f < m

\* For each sample URL, as given and stripped: which of the three patterns
\* match somewhere in it, and the identifier each captures.
PatternMatches ==
    [u \in {v \in SampleUrls : TruthyUrl(v)}
           \cup {Strip(v) : v \in {w \in SampleUrls : TruthyUrl(w)}} |->
        LET s == Strip(u)
        IN  [instagram |-> \E p \in 1..Len(s) : INSTAGRAM_REEL(s, p).ok,
             twitter   |-> \E p \in 1..Len(s) : TWITTER_STATUS(s, p).ok,
             youtube   |-> \E p \in 1..Len(s) : YOUTUBE(s, p).ok,
             ids       |-> [instagram |-> IF SearchInstagram(s).ok
                                          THEN SearchInstagram(s).g2 ELSE <<>>,
                            twitter   |-> IF SearchTwitter(s).ok
                                          THEN SearchTwitter(s).g1 ELSE <<>>,
                            youtube   |-> IF SearchYoutube(s).ok
                                          THEN SearchYoutube(s).g1 ELSE <<>>]]]

\* C19: the classifier returns nothing exactly for an input that none of
\* the three patterns matches; otherwise the platform is that of the first
\* of instagram, twitter, youtube whose pattern matches, and video_id is
\* the non-empty identifier that pattern captured.
C19_FirstMatchWins ==
    /\ (/\ TruthyUrl(args.url)
        /\ pc \notin {"start", "select"}
        /\ exit_cause # "config") =>
           LET m == PatternMatches[args.url]
           IN  IF m.instagram \/ m.twitter \/ m.youtube
               THEN /\ Len(urls_to_process) = 1
                    /\ urls_to_process[1].url = Strip(args.url)
               ELSE /\ urls_to_process = <<>>
                    /\ exit_cause = "invalid_url"
    /\ \A k \in Items :
           LET item == urls_to_process[k]
               m == PatternMatches[item.url]
               first == IF m.instagram THEN "instagram"
                        ELSE IF m.twitter THEN "twitter"
                        ELSE "youtube"
           IN  /\ m.instagram \/ m.twitter \/ m.youtube
               /\ item.platform = first
               /\ item.video_id = m.ids[first]
               /\ item.video_id # <<>>

\* A URL that the twitter pattern matches at its start and the instagram
\* pattern further on was classified as an instagram reel.
C19_Witness ==
    /\ args.url = U_both
    /\ PatternMatches[U_both].twitter
    /\ PatternMatches[U_both].instagram
    /\ Len(urls_to_process) = 1
    /\ urls_to_process[1].platform = "instagram"
    /\ urls_to_process[1].video_id = <<"a", "b">>

\* The child was started and the handler has finished with it.
ChildOver == handler.pc = "done" /\ pc \in {"exit", "killed"}

\* C15: a POST is answered exactly once; and whatever became of the child
\* (exit code zero, exit code non-zero, killed at the timeout) the answer
\* has status 200 with ok and ran true, carries stderr exactly when the
\* exit code is non-zero, that being the first 500 characters of what the
\* child wrote, and carries timeout, true, exactly when the child was
\* killed at the timeout.
C15_IngestFailureNeverHttpError ==
    /\ Len(handler.responses) = IF handler.pc = "done" THEN 1 ELSE 0
    /\ ChildOver =>
          LET r == handler.responses[1]
          IN  /\ r.status = 200
              /\ "ok" \in DOMAIN r.body /\ r.body.ok
              /\ "ran" \in DOMAIN r.body /\ r.body.ran
              /\ ("stderr" \in DOMAIN r.body) <=>
                     (pc = "exit" /\ exit_code # 0)
              /\ "stderr" \in DOMAIN r.body =>
                     /\ TextLen(r.body.stderr) <= 500
                     /\ r.body.stderr =
                            IF TextLen(Stderr(exit_cause)) > 500
                            THEN Take(Stderr(exit_cause), 500)
                            ELSE Stderr(exit_cause)
              /\ ("timeout" \in DOMAIN r.body) <=> (pc = "killed")
              /\ "timeout" \in DOMAIN r.body => r.body.timeout

\* The child started on an item and died of an error raised by the
\* transcriber, leaving a traceback longer than 500 characters: the POST
\* was answered 200 with the first 500 characters of it.
C15_Witness ==
    /\ ChildOver
    /\ pc = "exit"
    /\ exit_code = 1
    /\ exit_cause = "transcribe_error"
    /\ TextLen(Stderr(exit_cause)) > 500
    /\ Len(handler.responses) = 1
    /\ handler.responses[1].status = 200
    /\ TextLen(handler.responses[1].body.stderr) = 500

\* The rows of the table a backlog run has to take up, whatever their
\* ingest_status: heading null, status "tracked", a source URL that
\* classifies.
Selectable ==
    {k \in DOMAIN videos :
        /\ videos[k].video_heading = None
        /\ videos[k].status = "tracked"
        /\ (IF TruthyUrl(videos[k].reel_url) THEN videos[k].reel_url
            ELSE videos[k].canonical_url) \in Classifiable}

\* Run r has the row in its batch.
Selects(r, row) ==
    \E j \in 1..Len(runs[r].batch) :
        /\ runs[r].batch[j].video_id = row.video_id
        /\ runs[r].batch[j].platform = row.platform

\* C20: selection does not look at ingest_status: every run whose
\* selection read was answered has in its batch every row with a null
\* heading, status "tracked" and a classifiable URL, rows that an earlier
\* run left at transcribing or failed and rows another run is working on
\* included; and a status write that the store applies is what the row
\* then shows, whoever wrote before (last write wins).
C20_SelectionIgnoresIngestStatus ==
    /\ \A r \in Runs :
          runs[r].read = "ok" =>
              /\ \A k \in Selectable : Selects(r, videos[k])
              /\ Len(runs[r].batch) = Cardinality(Selectable)
    /\ (last.op = "PATCH" /\ last.outcome = "ok") =>
          \A k \in DOMAIN videos :
              (/\ videos[k].video_id = last.req.params.video_id
               /\ videos[k].platform = last.req.params.platform) =>
                  videos[k].ingest_status = last.req.body.ingest_status

\* Both runs took up the same row; run a recorded it as failed, and then
\* run b's write of transcribing replaced that: the row shows transcribing
\* although its processing by run a has ended in failure.
C20_Witness ==
    /\ runs["a"].ended = <<"failed">>
    /\ runs["b"].pc = "work"
    /\ runs["b"].i = 1
    /\ runs["a"].batch = runs["b"].batch
    /\ last.op = "PATCH"
    /\ last.outcome = "ok"
    /\ last.run = "b"
    /\ last.req.body.ingest_status = "transcribing"
    /\ \E k \in Selectable :
          /\ Selects("a", videos[k])
          /\ Selects("b", videos[k])
          /\ videos[k].ingest_status = "transcribing"
          /\ videos[k].ingest_error \in FailureTexts

====
